---- MODULE Spec2Model ----
(***************************************************************************)
(* Model of the contact manager in src/HW1.py: the AddressBook (an         *)
(* insertion-ordered dict of Records), the pickle file, the validators,    *)
(* the input_error decorator, the command handlers and the main loop.      *)
(* Text that the program inspects character by character (phone numbers,   *)
(* birthday strings) is a sequence of one-character strings; names and     *)
(* fixed messages are strings.                                             *)
(***************************************************************************)
EXTENDS Integers, Sequences, FiniteSets, TLC

VARIABLES book, file, pc, out, last

vars == <<book, file, pc, out, last>>

(***************************************************************************)
(* Bounds                                                                  *)
(***************************************************************************)
\* the add command is tried only while the book holds fewer phone numbers
\* than this
MaxPhones == 3

(***************************************************************************)
(* Characters                                                              *)
(***************************************************************************)
DigitChars == <<"0", "1", "2", "3", "4", "5", "6", "7", "8", "9">>

IsDigit(c) == \E i \in 1..10 : DigitChars[i] = c

DigitVal(c) == (CHOOSE i \in 1..10 : DigitChars[i] = c) - 1

\* int() of a non-empty run of decimal digits
RECURSIVE ToInt(_)
ToInt(t) == IF Len(t) = 0 THEN 0
            ELSE 10 * ToInt(SubSeq(t, 1, Len(t) - 1)) + DigitVal(t[Len(t)])

AllDigits(t) == \A i \in 1..Len(t) : IsDigit(t[i])

(***************************************************************************)
(* PHONE_PATTERN = re.compile(r'^\+?\d{10}$'), used through .match():      *)
(* an optional '+', then ten digits, then the end of the token.            *)
(***************************************************************************)
PHONE_PATTERN_prefix(phone) ==
    LET start == IF Len(phone) >= 1 /\ phone[1] = "+" THEN 2 ELSE 1
    IN  /\ Len(phone) >= start + 9
        /\ AllDigits(SubSeq(phone, start, start + 9))

PHONE_PATTERN(phone) ==
    LET start == IF Len(phone) >= 1 /\ phone[1] = "+" THEN 2 ELSE 1
    IN  /\ Len(phone) >= start + 9
        /\ AllDigits(SubSeq(phone, start, start + 9))
        /\ Len(phone) = start + 9

(***************************************************************************)
(* Calendar dates (datetime.date): a record [y, m, d].  None is the        *)
(* absent birthday.                                                        *)
(***************************************************************************)
None == [y |-> 0, m |-> 0, d |-> 0]

Date(y, m, d) == [y |-> y, m |-> m, d |-> d]

IsLeap(y) == (y % 4 = 0) /\ ((y % 100 # 0) \/ (y % 400 = 0))

DaysInMonth(y, m) ==
    IF m = 2 THEN (IF IsLeap(y) THEN 29 ELSE 28)
    ELSE IF m \in {4, 6, 9, 11} THEN 30 ELSE 31

\* the date constructor accepts exactly these
ValidDate(y, m, d) ==
    /\ y >= 1 /\ y <= 9999
    /\ m >= 1 /\ m <= 12
    /\ d >= 1 /\ d <= DaysInMonth(y, m)

DaysBeforeYear(y) ==
    LET p == y - 1 IN p * 365 + (p \div 4) - (p \div 100) + (p \div 400)

RECURSIVE DaysBeforeMonth(_, _)
DaysBeforeMonth(y, m) ==
    IF m = 1 THEN 0 ELSE DaysBeforeMonth(y, m - 1) + DaysInMonth(y, m - 1)

\* date.toordinal(): the order of dates and the meaning of + timedelta
Ordinal(dt) == DaysBeforeYear(dt.y) + DaysBeforeMonth(dt.y, dt.m) + dt.d

(***************************************************************************)
(* datetime.strptime(value, "%d-%m-%Y"): the directive regexes of          *)
(* strptime, a match that must consume the whole string, then the date     *)
(* constructor.                                                            *)
(***************************************************************************)
\* %d : 3[0-1] | [1-2]\d | 0[1-9] | [1-9] | " "[1-9]
DayRe(t) ==
    \/ Len(t) = 2 /\ t[1] = "3" /\ t[2] \in {"0", "1"}
    \/ Len(t) = 2 /\ t[1] \in {"1", "2"} /\ IsDigit(t[2])
    \/ Len(t) = 2 /\ t[1] = "0" /\ IsDigit(t[2]) /\ t[2] # "0"
    \/ Len(t) = 1 /\ IsDigit(t[1]) /\ t[1] # "0"
    \/ Len(t) = 2 /\ t[1] = " " /\ IsDigit(t[2]) /\ t[2] # "0"

\* %m : 1[0-2] | 0[1-9] | [1-9]
MonthRe(t) ==
    \/ Len(t) = 2 /\ t[1] = "1" /\ t[2] \in {"0", "1", "2"}
    \/ Len(t) = 2 /\ t[1] = "0" /\ IsDigit(t[2]) /\ t[2] # "0"
    \/ Len(t) = 1 /\ IsDigit(t[1]) /\ t[1] # "0"

\* %Y : \d\d\d\d
YearRe(t) == Len(t) = 4 /\ AllDigits(t)

\* the numeric value of a matched %d group (a leading blank is skipped)
DayVal(t) == IF t[1] = " " THEN ToInt(Tail(t)) ELSE ToInt(t)

\* every way value splits as <day>-<month>-<year> with the groups matching
StrptimeMatches(value) ==
    { Date(ToInt(SubSeq(value, s[2] + 1, Len(value))),
           ToInt(SubSeq(value, s[1] + 1, s[2] - 1)),
           DayVal(SubSeq(value, 1, s[1] - 1))) :
      s \in { p \in (1..Len(value)) \X (1..Len(value)) :
                /\ p[1] < p[2]
                /\ value[p[1]] = "-" /\ value[p[2]] = "-"
                /\ DayRe(SubSeq(value, 1, p[1] - 1))
                /\ MonthRe(SubSeq(value, p[1] + 1, p[2] - 1))
                /\ YearRe(SubSeq(value, p[2] + 1, Len(value))) } }

\* Birthday.__init__: the parsed date, or ok = FALSE for the ValueError
Birthday(value) ==
    LET ms == { dt \in StrptimeMatches(value) : ValidDate(dt.y, dt.m, dt.d) }
    IN  IF ms = {} THEN [ok |-> FALSE, value |-> None]
        ELSE [ok |-> TRUE, value |-> CHOOSE dt \in ms : TRUE]

\* zero-padded decimal of n in w characters
RECURSIVE Pad(_, _)
Pad(n, w) == IF w = 0 THEN <<>>
             ELSE Pad(n \div 10, w - 1) \o <<DigitChars[(n % 10) + 1]>>

\* date.strftime('%d-%m-%Y')
Strftime(dt) == Pad(dt.d, 2) \o <<"-">> \o Pad(dt.m, 2) \o <<"-">> \o Pad(dt.y, 4)

(***************************************************************************)
(* Record and AddressBook.  The AddressBook is a dict: here the sequence   *)
(* of its Records in insertion order, one Record per name.                 *)
(***************************************************************************)
\* Record.__init__
Record(name) == [name |-> name, phones |-> <<>>, birthday |-> None]

\* AddressBook.find, as a position: 0 stands for the None of dict.get
find(b, name) ==
    IF \E i \in 1..Len(b) : b[i].name = name
    THEN CHOOSE i \in 1..Len(b) : b[i].name = name
    ELSE 0

\* AddressBook.add_record: self[record.name.value] = record
add_record(b, record) ==
    IF find(b, record.name) = 0 THEN Append(b, record)
    ELSE [b EXCEPT ![find(b, record.name)] = record]

\* Record.add_phone: ok = FALSE is the ValueError, raised before the append
add_phone_front(record, phone) ==
    IF ~PHONE_PATTERN(phone) THEN [ok |-> FALSE, record |-> record]
    ELSE [ok |-> TRUE, record |-> [record EXCEPT !.phones = <<phone>> \o @]]

add_phone(record, phone) ==
    IF ~PHONE_PATTERN(phone) THEN [ok |-> FALSE, record |-> record]
    ELSE [ok |-> TRUE, record |-> [record EXCEPT !.phones = Append(@, phone)]]

\* Record.add_birthday: the assignment happens only if Birthday() returned
record_add_birthday(record, birthday_str) ==
    LET bd == Birthday(birthday_str)
    IN  IF bd.ok THEN [ok |-> TRUE, record |-> [record EXCEPT !.birthday = bd.value]]
        ELSE [ok |-> FALSE, record |-> record]

Names(b) == { b[i].name : i \in 1..Len(b) }

\* how many phone numbers the first n records hold
RECURSIVE CountPhones(_, _)
CountPhones(b, n) == IF n = 0 THEN 0 ELSE CountPhones(b, n - 1) + Len(b[n].phones)

TotalPhones(b) == CountPhones(b, Len(b))

(***************************************************************************)
(* Persistence.  The file is missing, holds bytes that are not a pickle,   *)
(* or holds a pickle: the dict's items in order, each Record as its state. *)
(***************************************************************************)
Missing == [kind |-> "missing", items |-> <<>>]

Corrupt == [kind |-> "corrupt", items |-> <<>>]

\* pickle.dump(book, f) into a file opened "wb"
save_data(b) ==
    [kind |-> "pickle",
     items |-> [i \in 1..Len(b) |-> <<b[i].name, b[i].phones, b[i].birthday>>]]

\* pickle.load: the dict is rebuilt by setting the items in order
RECURSIVE Unpickle(_, _)
Unpickle(items, n) ==
    IF n = 0 THEN <<>>
    ELSE add_record(Unpickle(items, n - 1),
                    [name |-> items[n][1], phones |-> items[n][2],
                     birthday |-> items[n][3]])

\* load_data: only FileNotFoundError is caught; ok = FALSE is any other
\* exception of pickle.load, which leaves load_data
load_data(f) ==
    IF f.kind = "missing" THEN [ok |-> TRUE, book |-> <<>>]
    ELSE IF f.kind = "pickle" THEN [ok |-> TRUE, book |-> Unpickle(f.items, Len(f.items))]
    ELSE [ok |-> FALSE, book |-> <<>>]

(***************************************************************************)
(* Output lines.  A line is its fixed text plus the values formatted into  *)
(* it.                                                                     *)
(***************************************************************************)
Line(text, name, chars, date) ==
    [text |-> text, name |-> name, chars |-> chars, date |-> date]

Msg(text) == Line(text, "", <<>>, <<>>)

\* ', '.join(record.phones)
RECURSIVE Join(_)
Join(phones) ==
    IF Len(phones) = 0 THEN <<>>
    ELSE IF Len(phones) = 1 THEN phones[1]
    ELSE phones[1] \o <<",", " ">> \o Join(Tail(phones))

(***************************************************************************)
(* Handlers.  A handler's outcome: whether it raised (and which exception  *)
(* type), what it returned (for a raise: the exception's text), the lines  *)
(* it printed itself, the AddressBook it leaves in memory and whether      *)
(* save_data ran.                                                          *)
(***************************************************************************)
Return(ret, b, save) ==
    [raised |-> FALSE, etype |-> "", ret |-> ret, printed |-> <<>>,
     book |-> b, save |-> save]

Raise(etype, text, b) ==
    [raised |-> TRUE, etype |-> etype, ret |-> Msg(text), printed |-> <<>>,
     book |-> b, save |-> FALSE]

\* the decorator: KeyError, IndexError and ValueError become return values
input_error(o) ==
    IF ~o.raised \/ o.etype \notin {"KeyError", "IndexError", "ValueError"} THEN o
    ELSE IF o.etype = "ValueError"
            /\ o.ret.text \in {"Enter name and phone please", "Invalid phone number format."}
         THEN [o EXCEPT !.raised = FALSE]
    ELSE IF o.etype = "KeyError"
         THEN [o EXCEPT !.raised = FALSE, !.ret = Msg("Enter name!")]
    ELSE IF o.etype = "IndexError"
         THEN [o EXCEPT !.raised = FALSE, !.ret = Msg("Enter name and phone number!")]
    ELSE [o EXCEPT !.raised = FALSE]

\* add_contact without the check of lines 74-75
add_contact_unchecked(args, b) ==
    IF Len(args) < 2 THEN Raise("ValueError", "Enter name and phone please", b)
    ELSE LET name   == args[1]
             phone  == args[2]
             isNew  == find(b, name) = 0
             b1     == IF isNew THEN add_record(b, Record(name)) ELSE b
             ap     == add_phone(b1[find(b1, name)], phone)
         IN  IF ~ap.ok THEN Raise("ValueError", "Invalid phone number format.", b1)
             ELSE Return(Msg(IF isNew THEN "Contact added." ELSE "Contact updated."),
                         [b1 EXCEPT ![find(b1, name)] = ap.record], TRUE)

add_contact(args, b) ==
    IF Len(args) < 2 THEN Raise("ValueError", "Enter name and phone please", b)
    ELSE LET name   == args[1]
             phone  == args[2]
             isNew  == find(b, name) = 0
             b1     == IF isNew THEN add_record(b, Record(name)) ELSE b
             ap     == add_phone(b1[find(b1, name)], phone)
         IN  IF ~PHONE_PATTERN(phone)
             THEN Raise("ValueError", "Invalid phone number format.", b)
             ELSE IF ~ap.ok THEN Raise("ValueError", "Invalid phone number format.", b1)
             ELSE Return(Msg(IF isNew THEN "Contact added." ELSE "Contact updated."),
                         [b1 EXCEPT ![find(b1, name)] = ap.record], TRUE)

\* change_contact that creates the record it does not find
change_contact_upsert(user_input, b) ==
    IF Len(user_input) < 2 THEN Raise("ValueError", "Enter name and phone please", b)
    ELSE LET name             == user_input[1]
             new_phone_number == user_input[2]
         IN  IF ~PHONE_PATTERN(new_phone_number)
             THEN Raise("ValueError", "Invalid phone number format.", b)
             ELSE IF find(b, name) # 0
             THEN Return(Msg("Contact updated!."),
                         [b EXCEPT ![find(b, name)].phones = <<new_phone_number>>], TRUE)
             ELSE Return(Msg("Contact updated!."),
                         Append(b, [Record(name) EXCEPT !.phones = <<new_phone_number>>]),
                         TRUE)

\* change_contact that appends the number instead of replacing the list
change_contact_append(user_input, b) ==
    IF Len(user_input) < 2 THEN Raise("ValueError", "Enter name and phone please", b)
    ELSE LET name             == user_input[1]
             new_phone_number == user_input[2]
         IN  IF ~PHONE_PATTERN(new_phone_number)
             THEN Raise("ValueError", "Invalid phone number format.", b)
             ELSE IF find(b, name) # 0
             THEN Return(Msg("Contact updated!."),
                         [b EXCEPT ![find(b, name)].phones = Append(@, new_phone_number)],
                         TRUE)
             ELSE Return(Msg("Contact not found!."), b, FALSE)

change_contact(user_input, b) ==
    IF Len(user_input) < 2 THEN Raise("ValueError", "Enter name and phone please", b)
    ELSE LET name             == user_input[1]
             new_phone_number == user_input[2]
         IN  IF ~PHONE_PATTERN(new_phone_number)
             THEN Raise("ValueError", "Invalid phone number format.", b)
             ELSE IF find(b, name) # 0
             THEN Return(Msg("Contact updated!."),
                         [b EXCEPT ![find(b, name)].phones = <<new_phone_number>>], TRUE)
             ELSE Return(Msg("Contact not found!."), b, FALSE)

\* show_phone: the name is the whole stripped argument string, so it is a
\* key of the book only when it is a single token
show_phone(user_input, b) ==
    IF Len(user_input) = 1 /\ find(b, user_input[1]) # 0
    THEN Return(Line("{phones}", "", Join(b[find(b, user_input[1])].phones), <<>>), b, FALSE)
    ELSE Return(Msg("Contact not found!."), b, FALSE)

\* one line of show_all
AllLine(record) ==
    IF record.birthday # None
    THEN Line("{name}: Phones: {phones}, Birthday: {birthday}",
              record.name, Join(record.phones), Strftime(record.birthday))
    ELSE Line("{name}: Phones: {phones}, Birthday: No birthday set",
              record.name, Join(record.phones), <<>>)

\* show_all: not decorated, prints and returns None
show_all(b) ==
    [Return(Msg(""), b, FALSE) EXCEPT
        !.printed = IF Len(b) > 0 THEN [i \in 1..Len(b) |-> AllLine(b[i])]
                    ELSE <<Msg("No contacts!.")>>]

\* add_birthday that forgets save_data
add_birthday_nosave(user_input, b) ==
    IF Len(user_input) < 2
    THEN Raise("ValueError",
               IF Len(user_input) = 0
               THEN "not enough values to unpack (expected at least 2, got 0)"
               ELSE "not enough values to unpack (expected at least 2, got 1)", b)
    ELSE LET name == user_input[1]
             i    == find(b, name)
             ab   == record_add_birthday(b[i], user_input[2])
         IN  IF i = 0 THEN Return(Msg("Contact not found!."), b, FALSE)
             ELSE IF ~ab.ok
             THEN Raise("ValueError", "Invalid date format. Use DD-MM-YYYY", b)
             ELSE Return(Msg("Birthday added!."), [b EXCEPT ![i] = ab.record], FALSE)

add_birthday(user_input, b) ==
    IF Len(user_input) < 2
    THEN Raise("ValueError",
               IF Len(user_input) = 0
               THEN "not enough values to unpack (expected at least 2, got 0)"
               ELSE "not enough values to unpack (expected at least 2, got 1)", b)
    ELSE LET name == user_input[1]
             i    == find(b, name)
             ab   == record_add_birthday(b[i], user_input[2])
         IN  IF i = 0 THEN Return(Msg("Contact not found!."), b, FALSE)
             ELSE IF ~ab.ok
             THEN Raise("ValueError", "Invalid date format. Use DD-MM-YYYY", b)
             ELSE Return(Msg("Birthday added!."), [b EXCEPT ![i] = ab.record], TRUE)

show_birthday(user_input, b) ==
    IF Len(user_input) = 1 /\ find(b, user_input[1]) # 0
    THEN LET birthday == b[find(b, user_input[1])].birthday
         IN  IF birthday # None
             THEN Return(Line("{birthday}", "", <<>>, Strftime(birthday)), b, FALSE)
             ELSE Return(Msg("No birthday set!."), b, FALSE)
    ELSE Return(Msg("Contact not found!."), b, FALSE)

\* birthday.replace(year=today.year): ok = FALSE is the ValueError of the
\* date constructor
ReplaceYear(birthday, y) ==
    IF ValidDate(y, birthday.m, birthday.d)
    THEN [ok |-> TRUE, value |-> Date(y, birthday.m, birthday.d)]
    ELSE [ok |-> FALSE, value |-> None]

\* the loop of show_upcoming_birthdays over the first n records
RECURSIVE UpcomingLoop(_, _, _)
UpcomingLoop(b, n, today) ==
    IF n = 0 THEN [raised |-> FALSE, list |-> <<>>]
    ELSE LET prev     == UpcomingLoop(b, n - 1, today)
             birthday == b[n].birthday
             ty       == ReplaceYear(birthday, today.y)
         IN  IF prev.raised \/ birthday = None THEN prev
             ELSE IF ~ty.ok THEN [raised |-> TRUE, list |-> prev.list]
             ELSE IF Ordinal(today) <= Ordinal(ty.value)
                     /\ Ordinal(ty.value) <= Ordinal(today) + 7
             THEN [prev EXCEPT !.list = Append(@, <<b[n].name, ty.value>>)]
             ELSE prev

\* show_upcoming_birthdays: prints after the loop; returns None
show_upcoming_birthdays(b, today) ==
    LET r == UpcomingLoop(b, Len(b), today)
    IN  IF r.raised THEN Raise("ValueError", "day is out of range for month", b)
        ELSE [Return(Msg(""), b, FALSE) EXCEPT
                !.printed = IF Len(r.list) > 0
                            THEN [i \in 1..Len(r.list) |->
                                    Line("{name}: {date}", r.list[i][1], <<>>,
                                         Strftime(r.list[i][2]))]
                            ELSE <<Msg("No upcoming birthdays!.")>>]

(***************************************************************************)
(* Inputs: the names, phone tokens, birthday tokens and clock values the   *)
(* commands are tried with.                                                *)
(***************************************************************************)
NameSet == {"ann", "bob"}

PhoneTen      == <<"1", "2", "3", "4", "5", "6", "7", "8", "9", "0">>
PhonePlus     == <<"+", "0", "9", "8", "7", "6", "5", "4", "3", "2", "1">>
PhoneNine     == <<"1", "2", "3", "4", "5", "6", "7", "8", "9">>
PhoneEleven   == <<"1", "2", "3", "4", "5", "6", "7", "8", "9", "0", "1">>
PhoneLetter   == <<"1", "2", "3", "4", "5", "a", "7", "8", "9", "0">>

PhoneToks == {PhoneTen, PhonePlus, PhoneNine, PhoneEleven, PhoneLetter}

Extra == <<"x">>

DateLeapDay   == <<"2", "9", "-", "0", "2", "-", "2", "0", "2", "4">>
DateMarch     == <<"0", "1", "-", "0", "3", "-", "2", "0", "2", "4">>
DateShort     == <<"1", "-", "3", "-", "2", "0", "2", "4">>
DateYearEnd   == <<"3", "1", "-", "1", "2", "-", "2", "0", "2", "3">>
DateNoLeap    == <<"2", "9", "-", "0", "2", "-", "2", "0", "2", "3">>
DateIso       == <<"2", "0", "2", "4", "-", "0", "3", "-", "0", "1">>
DateSlash     == <<"0", "1", "/", "0", "3", "/", "2", "0", "2", "4">>
DateMonth13   == <<"0", "1", "-", "1", "3", "-", "2", "0", "2", "4">>
DateFiveDigitY == <<"0", "1", "-", "0", "3", "-", "2", "0", "2", "4", "5">>

DateToks == {DateLeapDay, DateMarch, DateShort, DateYearEnd, DateNoLeap,
             DateIso, DateSlash, DateMonth13, DateFiveDigitY}

\* argument tokens after the command word: none, a name, a name and a
\* second token, and the same followed by a further token
ArgsOf(toks, more) ==
    {<<>>} \cup { <<n>> : n \in NameSet }
           \cup { <<n, t>> : n \in NameSet, t \in toks }
           \cup { <<n, t, Extra>> : n \in NameSet, t \in more }

NameArgs == {<<>>} \cup { <<n>> : n \in NameSet } \cup { <<n, Extra>> : n \in NameSet }

\* values of datetime.today().date()
Todays == { Date(2025, 2, 25), Date(2024, 2, 21), Date(2024, 2, 22),
            Date(2024, 3, 1), Date(2024, 3, 2), Date(2023, 12, 28) }

\* what addressbook.pkl may hold when the program starts: nothing, bytes
\* that are no pickle, or a book an earlier run saved
InitFiles ==
    { Missing, Corrupt, save_data(<<>>),
      save_data(<<[name |-> "ann", phones |-> <<PhoneTen>>, birthday |-> Date(2024, 2, 29)]>>) }

(***************************************************************************)
(* main                                                                    *)
(***************************************************************************)
Init ==
    /\ book = <<>>
    /\ file \in InitFiles
    /\ pc = "start"
    /\ out = <<>>
    /\ last = [cmd |-> "", args |-> <<>>, today |-> None]

\* lines 161-163: book = load_data(); the welcome line
Load ==
    /\ pc = "start"
    /\ LET r == load_data(file)
       IN  /\ book' = r.book
           /\ pc' = IF r.ok THEN "loop" ELSE "crashed"
           /\ out' = IF r.ok THEN <<Msg("Welcome to the assistant bot!")>> ELSE <<>>
    /\ UNCHANGED <<file, last>>

\* one turn of the loop that ran a handler with outcome o; printRet tells
\* whether main prints the handler's return value
Turn(cmd, args, today, o, printRet) ==
    /\ book' = o.book
    /\ file' = IF o.save THEN save_data(o.book) ELSE file
    /\ pc' = IF o.raised THEN "crashed" ELSE "loop"
    /\ out' = IF ~o.raised /\ printRet THEN o.printed \o <<o.ret>> ELSE o.printed
    /\ last' = [cmd |-> cmd, args |-> args, today |-> today]

\* a turn that runs no handler
Say(cmd, text, nextPc) ==
    /\ out' = <<Msg(text)>>
    /\ pc' = nextPc
    /\ last' = [cmd |-> cmd, args |-> <<>>, today |-> None]
    /\ UNCHANGED <<book, file>>

Empty == pc = "loop" /\ Say("", "Empty input. Please enter a command.", "loop")

Close == pc = "loop" /\ \E c \in {"close", "exit"} : Say(c, "Good bye!", "done")

Hello == pc = "loop" /\ Say("hello", "How can I help you?", "loop")

Invalid == pc = "loop" /\ \E c \in {"delete", "Add"} : Say(c, "Invalid command.", "loop")

Add ==
    /\ pc = "loop"
    /\ \E args \in ArgsOf(PhoneToks, {PhoneTen, PhoneEleven}) :
          /\ (Len(args) >= 2 /\ PHONE_PATTERN(args[2])) => TotalPhones(book) < MaxPhones
          /\ Turn("add", args, None, input_error(add_contact(args, book)), TRUE)

Change ==
    /\ pc = "loop"
    /\ \E args \in ArgsOf(PhoneToks, {PhonePlus, PhoneNine}) :
          Turn("change", args, None, input_error(change_contact(args, book)), TRUE)

Phone ==
    /\ pc = "loop"
    /\ \E args \in NameArgs :
          Turn("phone", args, None, input_error(show_phone(args, book)), TRUE)

All == pc = "loop" /\ Turn("all", <<>>, None, show_all(book), FALSE)

AddBirthday ==
    /\ pc = "loop"
    /\ \E args \in ArgsOf(DateToks, {DateShort, DateSlash}) :
          Turn("add-birthday", args, None, input_error(add_birthday(args, book)), TRUE)

ShowBirthday ==
    /\ pc = "loop"
    /\ \E args \in NameArgs :
          Turn("show-birthday", args, None, input_error(show_birthday(args, book)), TRUE)

Birthdays ==
    /\ pc = "loop"
    /\ \E today \in Todays :
          Turn("birthdays", <<>>, today,
               input_error(show_upcoming_birthdays(book, today)), FALSE)

Next ==
    \/ Load
    \/ Empty
    \/ Close
    \/ Hello
    \/ Invalid
    \/ Add
    \/ Change
    \/ Phone
    \/ All
    \/ AddBirthday
    \/ ShowBirthday
    \/ Birthdays

Spec == Init /\ [][Next]_vars

(***************************************************************************)
(* Properties                                                              *)
(***************************************************************************)
\* a phone as the data model words it: ten digits, optionally after one '+'
TenDigits(p) ==
    LET digits == {"0", "1", "2", "3", "4", "5", "6", "7", "8", "9"}
        body   == IF Len(p) = 11 /\ Head(p) = "+" THEN Tail(p) ELSE p
    IN  Len(body) = 10 /\ { body[i] : i \in 1..10 } \subseteq digits

\* the step is a turn of the command loop running cmd with a second token
TurnWithToken(cmd) ==
    pc = "loop" /\ last'.cmd = cmd /\ Len(last'.args) >= 2

\* C1: add or change with a phone token that is not ten digits (optionally
\* after '+') returns "Invalid phone number format." and changes neither
\* the book in memory nor the file; add with a new name creates no record.
C1_InvalidPhoneRejected ==
    [][ ((TurnWithToken("add") \/ TurnWithToken("change")) /\ ~TenDigits(last'.args[2]))
          => /\ out' = <<Msg("Invalid phone number format.")>>
             /\ book' = book
             /\ file' = file
             /\ Names(book') = Names(book) ]_vars

C1_Witness ==
    /\ pc = "loop"
    /\ last.cmd = "add" /\ Len(last.args) >= 2
    /\ ~TenDigits(last.args[2])
    /\ last.args[1] \notin Names(book)
    /\ Len(book) > 0
    /\ out = <<Msg("Invalid phone number format.")>>

\* C2: whenever the program waits for a command, loading the file gives the
\* book in memory (a missing file giving the empty book), and saving the
\* book and loading it again gives the same book.
C2_FileMatchesBook ==
    pc = "loop" =>
        /\ load_data(file).ok
        /\ load_data(file).book = book
        /\ load_data(save_data(book)).book = book

C2_Witness ==
    /\ pc = "loop"
    /\ last.cmd = "add-birthday"
    /\ out = <<Msg("Birthday added!.")>>
    /\ Len(book) = 2
    /\ book[2].birthday # None
    /\ file = save_data(book)

\* C3: a successful add leaves the record's previous phone list (empty for
\* a new name) with the phone appended last; for a new name, phone <name>
\* then returns exactly that phone.
C3_AddThenFind ==
    [][ (TurnWithToken("add")
         /\ out' \in {<<Msg("Contact added.")>>, <<Msg("Contact updated.")>>})
          => LET name  == last'.args[1]
                 phone == last'.args[2]
                 prev  == IF find(book, name) = 0 THEN <<>>
                          ELSE book[find(book, name)].phones
             IN  /\ find(book', name) # 0
                 /\ book'[find(book', name)].phones = Append(prev, phone)
                 /\ find(book, name) = 0
                      => show_phone(<<name>>, book').ret = Line("{phones}", "", phone, <<>>) ]_vars

C3_Witness ==
    /\ pc = "loop"
    /\ last.cmd = "add" /\ Len(last.args) >= 2
    /\ out = <<Msg("Contact updated.")>>
    /\ LET r == book[find(book, last.args[1])]
       IN  Len(r.phones) = 2 /\ r.phones[1] # r.phones[2] /\ r.phones[2] = last.args[2]

\* C4 as stated: change on a name that is not in the book returns
\* "Contact not found!." whatever the phone argument, and changes nothing.
C4_AsStated ==
    [][ (TurnWithToken("change") /\ last'.args[1] \notin Names(book))
          => /\ out' = <<Msg("Contact not found!.")>>
             /\ book' = book
             /\ file' = file ]_vars

\* C4 amended: change on a name that is not in the book returns
\* "Contact not found!." when the phone argument is ten digits (optionally
\* after '+') and "Invalid phone number format." when it is not; either way
\* no record is created and the book and the file are unchanged.
C4_ChangeUnknownName ==
    [][ (TurnWithToken("change") /\ last'.args[1] \notin Names(book))
          => /\ out' = <<Msg(IF TenDigits(last'.args[2]) THEN "Contact not found!."
                             ELSE "Invalid phone number format.")>>
             /\ book' = book
             /\ file' = file
             /\ Names(book') = Names(book) ]_vars

C4_Witness ==
    /\ pc = "loop"
    /\ last.cmd = "change" /\ Len(last.args) >= 2
    /\ TenDigits(last.args[2])
    /\ last.args[1] \notin Names(book)
    /\ Len(book) > 0
    /\ out = <<Msg("Contact not found!.")>>

\* the birthday's occurrence in today's year lies in [today, today + 7]
InWindow(birthday, today) ==
    /\ birthday # None
    /\ ValidDate(today.y, birthday.m, birthday.d)
    /\ Ordinal(today) <= Ordinal(Date(today.y, birthday.m, birthday.d))
    /\ Ordinal(Date(today.y, birthday.m, birthday.d)) <= Ordinal(today) + 7

\* C5: birthdays lists exactly the records whose birthday's occurrence in
\* today's year lies within today .. today + 7 days, and prints
\* "No upcoming birthdays!." exactly when there is no such record.
C5_UpcomingExactly ==
    (pc = "loop" /\ last.cmd = "birthdays") =>
        LET due == { i \in 1..Len(book) : InWindow(book[i].birthday, last.today) }
        IN  /\ { out[k].name : k \in { j \in 1..Len(out) : out[j].text = "{name}: {date}" } }
                 = { book[i].name : i \in due }
            /\ (\E k \in 1..Len(out) : out[k] = Msg("No upcoming birthdays!.")) <=> due = {}

\* C6: after add-birthday accepted the string s for a contact,
\* show-birthday for that contact returns exactly s.
C6_BirthdayRoundTrip ==
    [][ (TurnWithToken("add-birthday") /\ out' = <<Msg("Birthday added!.")>>)
          => show_birthday(<<last'.args[1]>>, book').ret
                = Line("{birthday}", "", <<>>, last'.args[2]) ]_vars

\* C7: a non-empty line other than close/exit never ends the loop and makes
\* the program print at least one line; only close or exit end the loop.
C7_AlwaysAnswers ==
    [][ pc = "loop"
          => /\ last'.cmd \notin {"", "close", "exit"} => (pc' = "loop" /\ Len(out') >= 1)
             /\ pc' # "loop" => (pc' = "done" /\ last'.cmd \in {"close", "exit"}) ]_vars

\* C8: every record of the book holds at least one phone, and every phone
\* held is ten digits, optionally after one '+'.
C8_PhonesWellFormed ==
    pc \in {"loop", "done"} =>
        \A i \in 1..Len(book) :
            /\ Len(book[i].phones) >= 1
            /\ \A k \in 1..Len(book[i].phones) : TenDigits(book[i].phones[k])

C8_Witness ==
    /\ pc = "loop"
    /\ Len(book) = 2
    /\ \E i \in 1..2 : Len(book[i].phones) = 2 /\ book[i].phones[2] = PhonePlus
    /\ last.cmd = "change"
    /\ out = <<Msg("Contact updated!.")>>

\* C9: at startup a file that is missing or is not a pickle gives the empty
\* book and the program enters the command loop.
C9_UnreadableFileFallsBack ==
    [][ (pc = "start" /\ file.kind \in {"missing", "corrupt"})
          => (pc' = "loop" /\ book' = <<>>) ]_vars

\* C10: a successful change makes the contact's phone list the one-element
\* list of the new phone and changes nothing else: not the birthday, not
\* the names, not any other record.
C10_ChangeReplacesPhones ==
    [][ (TurnWithToken("change") /\ out' = <<Msg("Contact updated!.")>>)
          => LET i == find(book, last'.args[1])
             IN  /\ i # 0
                 /\ book' = [book EXCEPT ![i].phones = <<last'.args[2]>>]
                 /\ book'[i].birthday = book[i].birthday
                 /\ Names(book') = Names(book) ]_vars

C10_Witness ==
    /\ pc = "loop"
    /\ last.cmd = "change" /\ Len(last.args) >= 2
    /\ out = <<Msg("Contact updated!.")>>
    /\ Len(book) = 2
    /\ LET i == find(book, last.args[1])
       IN  /\ book[i].phones = <<last.args[2]>>
           /\ book[i].birthday # None
           /\ Len(book[3 - i].phones) = 2

====
